---- MODULE Spec2Model ----
(***************************************************************************)
(* Model of TSTS.py: the signal pipeline (zeropadding, calc_window,        *)
(* calc_fft) and the interactive controller fft_timesignal with its        *)
(* handlers onselect, press and update_plot, and the save_data callback.   *)
(*                                                                         *)
(* Numbers.  Times and amplitudes are integers.  A frequency is the exact  *)
(* rational the code's float expression denotes, kept in lowest terms as   *)
(* <<num, den, e>> = num / (den * Million^e), den >= 0; den = 0 stands for *)
(* the IEEE values the division by a zero span produces (+inf for num = 1, *)
(* nan for num = 0, -inf for num = -1).  A magnitude abs(fft(ys*window))[k]*)
(* is kept as the term <<k, ys*window>>: equal terms are equal magnitudes. *)
(*                                                                         *)
(* Errors.  A handler that raises stops where it raises; matplotlib's      *)
(* callback registry reports the exception and the event loop goes on, so  *)
(* the assignments made before the raise stay and the later ones are lost. *)
(***************************************************************************)
EXTENDS Integers, Sequences, FiniteSets, TLC

\* ------------------------------------------------------------------ bounds
MaxLen == 5          \* most rows in a loaded file
MaxRaises == 1       \* most handlers in a row that raise in update_plot
MaxDiv == 2          \* most Commit events between two recomputes
FnMaxLen == 5        \* most samples of a series handed to a function directly
FnMaxGap == 2        \* largest time step of such a series

\* --------------------------------------------------------------- constants
Million == 1000000

\* data is None (get_file found no filename), or a 2-D array of rows <<t, y>>
NoData == [none |-> TRUE, rows |-> <<>>]

Array(rows) == [none |-> FALSE, rows |-> rows]

Windows == {"hanning", "blackman", "hamming", "bartlett", "boxcar"}

TaperNames == {"hanning", "blackman", "hamming", "bartlett"}

\* ----------------------------------------------------------- number helpers
Abs(n) == IF n < 0 THEN -n ELSE n

Sign(n) == IF n > 0 THEN 1 ELSE IF n < 0 THEN -1 ELSE 0

RECURSIVE GCD(_, _)
GCD(a, b) == IF b = 0 THEN a ELSE GCD(b, a % b)

\* num/den in lowest terms with den >= 0; x/0 is +inf, nan or -inf
Rat(n, d) ==
    IF d = 0 THEN <<Sign(n), 0, 0>>
    ELSE LET s == IF d < 0 THEN -1 ELSE 1
             g == GCD(Abs(n), Abs(d))
         IN  <<(s * n) \div g, (s * d) \div g, 0>>

\* f > 0 on floats: true of +inf, false of nan
FreqPositive(f) == f[1] > 0

\* a < b on floats of one scale; inf < inf is false
FreqLess(a, b) == a[3] = b[3] /\ a[1] * b[2] < b[1] * a[2]

\* f / 1E6; inf / 1E6 is inf
DivMillion(f) == IF f[2] = 0 THEN f ELSE <<f[1], f[2], f[3] + 1>>

RECURSIVE SeqMin(_)
SeqMin(s) ==
    IF Len(s) = 1 THEN s[1]
    ELSE LET m == SeqMin(Tail(s)) IN IF s[1] < m THEN s[1] ELSE m

RECURSIVE SeqMax(_)
SeqMax(s) ==
    IF Len(s) = 1 THEN s[1]
    ELSE LET m == SeqMax(Tail(s)) IN IF s[1] > m THEN s[1] ELSE m

\* boolean-mask indexing a[mask]: the elements whose mask entry is true, in order
RECURSIVE Masked(_, _)
Masked(a, mask) ==
    IF Len(a) = 0 THEN <<>>
    ELSE IF mask[1] THEN <<a[1]>> \o Masked(Tail(a), Tail(mask))
         ELSE Masked(Tail(a), Tail(mask))

\* data[:, 0] and data[:, 1]
Col0(d) == [i \in 1..Len(d) |-> d[i][1]]

Col1(d) == [i \in 1..Len(d) |-> d[i][2]]

\* ------------------------------------------------------------- zeropadding
\* 2**ceil(log2(n)); log2(0) is -inf and 2**-inf is 0
RECURSIVE Pow2From(_, _)
Pow2From(p, n) == IF p >= n THEN p ELSE Pow2From(2 * p, n)

\* the smallest power of two strictly above n
NextPow2Above(n) == IF n = 0 THEN 0 ELSE Pow2From(1, n + 1)

\* int(2**np.ceil(np.log2(n))): np.log2(0) is -inf and 2**-inf is 0
NextPow2(n) == IF n = 0 THEN 0 ELSE Pow2From(1, n)

\* s[::-1]
Reverse(s) == [i \in 1..Len(s) |-> s[Len(s) + 1 - i]]

\* np.linspace(start, stop, num, endpoint=False): start + j*step, j = 0..num-1,
\* with step = (stop - start)/num
linspace(start, stop, num) ==
    [j \in 1..num |-> start + (j - 1) * ((stop - start) \div num)]

\* np.pad's right ramp without the reversal: it runs from end_value down
pad_linear_ramp_forward(a, width, end_value) ==
    a \o linspace(end_value, a[Len(a)], width)

\* np.pad(a, (0, width), "linear_ramp", end_values=(0, end_value)): the right
\* ramp is the reversed linspace from end_value to the edge a[-1]
pad_linear_ramp(a, width, end_value) ==
    a \o Reverse(linspace(end_value, a[Len(a)], width))

\* np.pad(a, (0, width), "constant", constant_values=(0, value))
pad_constant(a, width, value) == a \o [i \in 1..width |-> value]

\* xs[-1] of an empty array raises IndexError
zeropadding(xs, ys) ==
    LET num_add == NextPow2(Len(xs)) - Len(xs)
        dt == IF Len(xs) > 1 THEN xs[2] - xs[1] ELSE 0
    IN  IF Len(xs) = 0
        THEN [raised |-> TRUE, xs |-> <<>>, ys |-> <<>>]
        ELSE [raised |-> FALSE,
              xs |-> pad_linear_ramp(xs, num_add, xs[Len(xs)] + num_add * dt),
              ys |-> pad_constant(ys, num_add, 0)]

\* ------------------------------------------------------------- calc_window
\* calc_window whose fallback for a name outside the dictionary is np.hanning
calc_window_tapered(windowtype, ys) ==
    IF windowtype \in TaperNames
    THEN [i \in 1..Len(ys) |-> <<windowtype, i - 1, Len(ys)>>]
    ELSE [i \in 1..Len(ys) |-> <<"hanning", i - 1, Len(ys)>>]

\* a weight is the term <<f, i, n>>: entry i of f(n), f a numpy taper or
\* "ones" (np.ones, every entry 1.0)
calc_window(windowtype, ys) ==
    IF windowtype \in TaperNames
    THEN [i \in 1..Len(ys) |-> <<windowtype, i - 1, Len(ys)>>]
    ELSE [i \in 1..Len(ys) |-> <<"ones", i - 1, Len(ys)>>]

\* the doubles nearest 0.42 and 0.08 minus 0.42 and 0.08, in units of
\* 2^-56/25; 0.5 is a double
Err042 == 0 - 28

Err008 == 3

\* the sign of the first and the last entry of a taper f(n), n >= 2, where
\* the cosines are -1 and 1 and the triangle reaches 0:
\*   np.hanning   0.5 - 0.5
\*   np.hamming   0.54 - 0.46
\*   np.bartlett  1 - 1
\*   np.blackman  0.42 - 0.5 + 0.08 on doubles, exactly Err042 + Err008 units
EndSign(f) ==
    CASE f = "hanning" -> 0
      [] f = "hamming" -> 1
      [] f = "bartlett" -> 0
      [] f = "blackman" -> Sign(Err042 + Err008)

\* the weight is 1.0: an entry of np.ones, or the one entry of a taper of
\* length 1, for which numpy returns ones(1)
WeightIsOne(w) == w[1] = "ones" \/ w[3] = 1

\* the sign of a weight: the entries of a taper between its ends are positive
WeightSign(w) ==
    IF WeightIsOne(w) THEN 1
    ELSE IF w[2] = 0 \/ w[2] = w[3] - 1 THEN EndSign(w[1])
    ELSE 1

\* ---------------------------------------------------------------- calc_fft
\* the integer bin numbers numpy.fft.fftfreq lays out: 0..(n-1)//2, -(n//2)..-1
fftbins(n) ==
    LET N == ((n - 1) \div 2) + 1
    IN  [i \in 1..n |-> IF i <= N THEN i - 1 ELSE (i - N - 1) - (n \div 2)]

\* numpy.fft.fftfreq(n, d) with d = dnum/dden: bins * (1.0 / (n * d))
fftfreq(n, dnum, dden) ==
    LET bins == fftbins(n)
    IN  [i \in 1..n |->
            IF dnum = 0 THEN Rat(bins[i], 0)
            ELSE Rat(bins[i] * dden, n * dnum)]

\* np.fft.fft(ys*window): entry i is the term <<bin, ys*window>>
fft(ys, window) ==
    LET prod == [i \in 1..Len(ys) |-> <<ys[i], window[i]>>]
    IN  [i \in 1..Len(ys) |-> <<fftbins(Len(ys))[i], prod>>]

\* what calc_fft returns, or raised when an exception leaves it
Result(r, txs, tys, sxs, sys) ==
    [raised |-> r, time_xs |-> txs, time_ys |-> tys, spec_xs |-> sxs, spec_ys |-> sys]

\* lines 58-62: the samples with fft_min < t < fft_max
range_filter(rows, fft_range) ==
    LET time_xs == Col0(rows)
        time_ys == Col1(rows)
        mask == [i \in 1..Len(rows) |->
                    time_xs[i] > fft_range[1] /\ time_xs[i] < fft_range[2]]
    IN  [xs |-> Masked(time_xs, mask), ys |-> Masked(time_ys, mask)]

\* lines 58-65: the series handed to the window and the transform
fft_input(rows, fft_range, zeropad) ==
    LET sel == range_filter(rows, fft_range)
    IN  IF zeropad THEN zeropadding(sel.xs, sel.ys)
        ELSE [raised |-> FALSE, xs |-> sel.xs, ys |-> sel.ys]

\* calc_fft that returns the filtered and padded xs, ys as the time series
calc_fft_filtered(data, fft_range, windowtype, zeropad) ==
    IF data.none THEN Result(FALSE, <<>>, <<>>, <<>>, <<>>)
    ELSE
    LET pad == fft_input(data.rows, fft_range, zeropad)
    IN  IF pad.raised THEN Result(TRUE, <<>>, <<>>, <<>>, <<>>)
        ELSE
        LET xs == pad.xs
            ys == pad.ys
            window == calc_window(windowtype, ys)
            N == Len(xs)
            all_xs == IF N > 0 THEN fftfreq(N, SeqMin(xs) - SeqMax(xs), N) ELSE <<>>
            all_ys == IF N > 0 THEN fft(ys, window) ELSE <<>>
            mask == [i \in 1..N |-> FreqPositive(all_xs[i])]
        IN  Result(FALSE, xs, ys, Masked(all_xs, mask), Masked(all_ys, mask))

\* calc_fft without the check for None: data[:, 0] raises on None
calc_fft_unchecked(data, fft_range, windowtype, zeropad) ==
    IF data.none THEN Result(TRUE, <<>>, <<>>, <<>>, <<>>)
    ELSE
    LET time_xs == Col0(data.rows)
        time_ys == Col1(data.rows)
        pad == fft_input(data.rows, fft_range, zeropad)
    IN  IF pad.raised THEN Result(TRUE, <<>>, <<>>, <<>>, <<>>)
        ELSE
        LET xs == pad.xs
            ys == pad.ys
            window == calc_window(windowtype, ys)
            N == Len(xs)
            all_xs == IF N > 0 THEN fftfreq(N, SeqMin(xs) - SeqMax(xs), N) ELSE <<>>
            all_ys == IF N > 0 THEN fft(ys, window) ELSE <<>>
            mask == [i \in 1..N |-> FreqPositive(all_xs[i])]
        IN  Result(FALSE, time_xs, time_ys,
                   Masked(all_xs, mask), Masked(all_ys, mask))

\* calc_fft that computes the window for the filtered samples before the
\* padding and leaves the padded samples unweighted
calc_fft_window_first(data, fft_range, windowtype, zeropad) ==
    IF data.none THEN Result(FALSE, <<>>, <<>>, <<>>, <<>>)
    ELSE
    LET time_xs == Col0(data.rows)
        time_ys == Col1(data.rows)
        sel == range_filter(data.rows, fft_range)
        early == calc_window(windowtype, sel.ys)
        pad == fft_input(data.rows, fft_range, zeropad)
    IN  IF pad.raised THEN Result(TRUE, <<>>, <<>>, <<>>, <<>>)
        ELSE
        LET xs == pad.xs
            ys == pad.ys
            N == Len(xs)
            window == [i \in 1..N |-> IF i <= Len(early) THEN early[i]
                                      ELSE <<"ones", i - 1, Len(early)>>]
            all_xs == IF N > 0 THEN fftfreq(N, SeqMin(xs) - SeqMax(xs), N) ELSE <<>>
            all_ys == IF N > 0 THEN fft(ys, window) ELSE <<>>
            mask == [i \in 1..N |-> FreqPositive(all_xs[i])]
        IN  Result(FALSE, time_xs, time_ys,
                   Masked(all_xs, mask), Masked(all_ys, mask))

calc_fft(data, fft_range, windowtype, zeropad) ==
    IF data.none THEN Result(FALSE, <<>>, <<>>, <<>>, <<>>)
    ELSE
    LET time_xs == Col0(data.rows)
        time_ys == Col1(data.rows)
        pad == fft_input(data.rows, fft_range, zeropad)
    IN  IF pad.raised THEN Result(TRUE, <<>>, <<>>, <<>>, <<>>)
        ELSE
        LET xs == pad.xs
            ys == pad.ys
            window == calc_window(windowtype, ys)
            N == Len(xs)
            all_xs == IF N > 0 THEN fftfreq(N, SeqMin(xs) - SeqMax(xs), N) ELSE <<>>
            all_ys == IF N > 0 THEN fft(ys, window) ELSE <<>>
            mask == [i \in 1..N |-> FreqPositive(all_xs[i])]
        IN  Result(FALSE, time_xs, time_ys,
                   Masked(all_xs, mask), Masked(all_ys, mask))

\* ------------------------------------------------------------------- files
\* a path is directory, name parts and extension; "" is the empty path
Path(dir, stem, ext) == [dir |-> dir, stem |-> stem, ext |-> ext]

NoName == Path("", <<>>, "")

Run1 == Path("/data/", <<"run1">>, ".csv")

Run2 == Path("/data/", <<"run2">>, ".csv")

FigureNames == {Path("/out/", <<"fig">>, ".png")}

\* os.path.basename
Basename(p) == Path("", p.stem, p.ext)

\* fname + "FFT" + extension of os.path.splitext
FFTName(p) == Path(p.dir, p.stem \o <<"FFT">>, p.ext)

\* the amplitude recorded at row i
Amp(i) == i % 2

\* a recording of n samples at times 0, 1, .., n-1
Recording(n) == Array([i \in 1..n |-> <<i - 1, Amp(i)>>])

\* the arrays genfromtxt reads: at least two rows, times in order
Datasets == { Recording(n) : n \in 2..MaxLen }

\* the files the open dialog offers: name and content
Files == { [name |-> IF Len(d.rows) % 2 = 0 THEN Run1 ELSE Run2, data |-> d] : d \in Datasets }

\* get_file(): no filename gives (None, ""), else the array read from the file
get_file == { [name |-> NoName, data |-> NoData] } \cup Files

MaxT == MaxLen - 1

\* the spans the selector reports (xmin <= xmax): the first sample only, all
\* but the first two, every sample, and a zero-width span on the second sample
Selections == {<<0 - 1, 1>>, <<1, MaxT + 1>>, <<0 - 1, MaxT + 1>>, <<1, 1>>}

\* -------------------------------------------------------------- controller
VARIABLES
    data,             \* global data: NoData or the loaded array
    filename,         \* global filename
    fft_range,        \* global fft_range
    spec_data,        \* global spec_data: rows <<frequency, magnitude>>
    window_button,    \* window_button.value_selected
    zeropad_button,   \* zeropad_button.get_status()[0]
    rescale_button,   \* rescale_button.get_status()[0]
    ax0,              \* data of ax0.lines[0]: <<xs, ys>>
    ax1,              \* data of ax1.lines[0]: <<spec_xs, spec_ys>>
    title,            \* title of title_ax
    redraw,           \* the last update_plot the handler completed:
                      \*   "none", "drawn" (no axis rescale) or "rescaled"
    err,              \* the handler raised
    written,          \* the files save_data wrote in the handler
    lastEvent,        \* the event the handler served
    running,          \* the figure is open
    raises,           \* handlers in a row that raised in update_plot
    call              \* a direct call of a pipeline function: arguments and result

vars == <<data, filename, fft_range, spec_data, window_button, zeropad_button,
          rescale_button, ax0, ax1, title, redraw, err, written, lastEvent, running,
          raises, call>>

\* the variables of the controller
ctl == <<data, filename, fft_range, spec_data, window_button, zeropad_button,
         rescale_button, ax0, ax1, title, redraw, err, written, lastEvent, running,
         raises>>

\* no direct call is made
NoCall == [fn |-> "none"]

\* np.array((spec_xs, spec_ys)).T
Rows(spec_xs, spec_ys) == [i \in 1..Len(spec_xs) |-> <<spec_xs[i], spec_ys[i]>>]

\* update_plot(force_rescale) on globals d, fn, rng and the widgets' values
update_plot(force_rescale, d, fn, rng) ==
    \E c \in {calc_fft(d, rng, window_button', zeropad_button')} :
        IF c.raised
        THEN /\ raises < MaxRaises
             /\ raises' = raises + 1
             /\ err' = TRUE
             /\ redraw' = "none"
             /\ UNCHANGED <<spec_data, ax0, ax1, title>>
        ELSE /\ raises' = 0
             /\ err' = FALSE
             /\ spec_data' = Rows(c.spec_xs, c.spec_ys)
             /\ ax0' = <<c.time_xs, c.time_ys>>
             /\ ax1' = <<c.spec_xs, c.spec_ys>>
             /\ redraw' = IF rescale_button' \/ force_rescale THEN "rescaled" ELSE "drawn"
             /\ title' = Basename(fn)

\* fft_timesignal up to plt.show(): get_file, the widgets, update_plot(force_rescale=True)
Init ==
    /\ \E f \in get_file : data = f.data /\ filename = f.name
    /\ fft_range = <<0, 0>>
    /\ window_button = "hanning"
    /\ zeropad_button = FALSE
    /\ rescale_button = TRUE
    /\ \E c \in {calc_fft(data, fft_range, window_button, zeropad_button)} :
           /\ spec_data = Rows(c.spec_xs, c.spec_ys)
           /\ ax0 = <<c.time_xs, c.time_ys>>
           /\ ax1 = <<c.spec_xs, c.spec_ys>>
    /\ title = Basename(filename)
    /\ redraw = "rescaled"
    /\ err = FALSE
    /\ written = <<>>
    /\ lastEvent = "Init"
    /\ running = TRUE
    /\ raises = 0
    /\ call = NoCall

\* onselect that crops the global data to the selected samples
SelectRangeCrops ==
    /\ running
    /\ UNCHANGED call
    /\ \E sel \in Selections : fft_range' = <<sel[1], sel[2]>>
    /\ \E kept \in {range_filter(data.rows, fft_range')} :
           data' = IF data.none THEN data ELSE Array(Rows(kept.xs, kept.ys))
    /\ UNCHANGED <<filename, window_button, zeropad_button, rescale_button, running>>
    /\ update_plot(FALSE, data', filename, fft_range')
    /\ written' = <<>>
    /\ lastEvent' = "SelectRange"

\* onselect(xmin, xmax), called by the span selector with xmin <= xmax
SelectRange ==
    /\ running
    /\ UNCHANGED call
    /\ \E sel \in Selections : fft_range' = <<sel[1], sel[2]>>
    /\ UNCHANGED <<data, filename, window_button, zeropad_button, rescale_button, running>>
    /\ update_plot(FALSE, data, filename, fft_range')
    /\ written' = <<>>
    /\ lastEvent' = "SelectRange"

\* window_button clicked: the radio button is set, then update_plot()
ToggleWindow ==
    /\ running
    /\ UNCHANGED call
    /\ window_button' \in Windows
    /\ UNCHANGED <<data, filename, fft_range, zeropad_button, rescale_button, running>>
    /\ update_plot(FALSE, data, filename, fft_range)
    /\ written' = <<>>
    /\ lastEvent' = "ToggleWindow"

\* zeropad_button clicked: the check box flips, then update_plot()
ToggleZeropad ==
    /\ running
    /\ UNCHANGED call
    /\ zeropad_button' = ~zeropad_button
    /\ UNCHANGED <<data, filename, fft_range, window_button, rescale_button, running>>
    /\ update_plot(FALSE, data, filename, fft_range)
    /\ written' = <<>>
    /\ lastEvent' = "ToggleZeropad"

\* rescale_button clicked: the check box flips, then update_plot()
ToggleRescale ==
    /\ running
    /\ UNCHANGED call
    /\ rescale_button' = ~rescale_button
    /\ UNCHANGED <<data, filename, fft_range, window_button, zeropad_button, running>>
    /\ update_plot(FALSE, data, filename, fft_range)
    /\ written' = <<>>
    /\ lastEvent' = "ToggleRescale"

\* press("ctrl+r"): span.onselect(0, 0) sets fft_range and runs update_plot(),
\* then update_plot(force_rescale=True) runs on the same globals and widgets:
\* it raises exactly when the first call does (the handler ends there, before
\* any redraw), and otherwise overwrites what the first call assigned
ResetView ==
    /\ running
    /\ UNCHANGED call
    /\ fft_range' = <<0, 0>>
    /\ UNCHANGED <<data, filename, window_button, zeropad_button, rescale_button, running>>
    /\ update_plot(TRUE, data, filename, fft_range')
    /\ written' = <<>>
    /\ lastEvent' = "ResetView"

\* press("ctrl+o") that also clears the selection
LoadResetsRange ==
    /\ running
    /\ UNCHANGED call
    /\ \E f \in get_file : data' = f.data /\ filename' = f.name
    /\ fft_range' = <<0, 0>>
    /\ UNCHANGED <<window_button, zeropad_button, rescale_button, running>>
    /\ update_plot(FALSE, data', filename', fft_range')
    /\ written' = <<>>
    /\ lastEvent' = "Load"

\* press("ctrl+o") that ends in update_plot(force_rescale=True)
LoadForcesRescale ==
    /\ running
    /\ UNCHANGED call
    /\ \E f \in get_file : data' = f.data /\ filename' = f.name
    /\ UNCHANGED <<fft_range, window_button, zeropad_button, rescale_button, running>>
    /\ update_plot(TRUE, data', filename', fft_range)
    /\ written' = <<>>
    /\ lastEvent' = "Load"

\* press("ctrl+o"): data, filename = get_file(); update_plot()
Load ==
    /\ running
    /\ UNCHANGED call
    /\ \E f \in get_file : data' = f.data /\ filename' = f.name
    /\ UNCHANGED <<fft_range, window_button, zeropad_button, rescale_button, running>>
    /\ update_plot(FALSE, data', filename', fft_range)
    /\ written' = <<>>
    /\ lastEvent' = "Load"

\* press("ctrl+o") on a file np.genfromtxt rejects: get_file raises
LoadFails ==
    /\ running
    /\ UNCHANGED call
    /\ err' = TRUE
    /\ redraw' = "none"
    /\ written' = <<>>
    /\ lastEvent' = "LoadFails"
    /\ UNCHANGED <<data, filename, fft_range, spec_data, window_button, zeropad_button,
                   rescale_button, ax0, ax1, title, running, raises>>

\* save_data(data, filename, fft_range, window, zeropad): data[:,0] /= 1E6 works
\* on the array it is handed, then the array is written under fname+"FFT"+extension
save_data(d, fn, rng, w, z) ==
    LET scaled == [i \in 1..Len(d) |-> <<DivMillion(d[i][1]), d[i][2]>>]
    IN  [data |-> scaled,
         file |-> [name |-> FFTName(fn), rows |-> scaled, header |-> <<rng, w, z>>]]

\* press("enter"): save_data is handed the global spec_data itself
Commit ==
    /\ running
    /\ UNCHANGED call
    /\ \A i \in 1..Len(spec_data) : spec_data[i][1][3] < MaxDiv
    /\ \E s \in {save_data(spec_data, filename, fft_range, window_button, zeropad_button)} :
           /\ spec_data' = s.data
           /\ written' = <<s.file>>
    /\ err' = FALSE
    /\ redraw' = "none"
    /\ lastEvent' = "Commit"
    /\ UNCHANGED <<data, filename, fft_range, window_button, zeropad_button,
                   rescale_button, ax0, ax1, title, running, raises>>

\* press("ctrl+s") with a name chosen in the dialog:
\* filename = asksaveasfilename(); plt.savefig(filename)
SaveFigure ==
    /\ running
    /\ UNCHANGED call
    /\ filename' \in FigureNames
    /\ err' = FALSE
    /\ redraw' = "none"
    /\ written' = <<>>
    /\ lastEvent' = "SaveFigure"
    /\ UNCHANGED <<data, fft_range, spec_data, window_button, zeropad_button,
                   rescale_button, ax0, ax1, title, running, raises>>

\* press("esc"): the figure closes and plt.show() returns
Exit ==
    /\ running
    /\ UNCHANGED call
    /\ running' = FALSE
    /\ err' = FALSE
    /\ redraw' = "none"
    /\ written' = <<>>
    /\ lastEvent' = "Exit"
    /\ UNCHANGED <<data, filename, fft_range, spec_data, window_button, zeropad_button,
                   rescale_button, ax0, ax1, title, raises>>

Next ==
    \/ SelectRange
    \/ ToggleWindow
    \/ ToggleZeropad
    \/ ToggleRescale
    \/ ResetView
    \/ Load
    \/ LoadFails
    \/ Commit
    \/ SaveFigure
    \/ Exit

Spec == Init /\ [][Next]_vars

\* ------------------------------------------- direct calls of the functions
\* the amplitude of sample i of a series handed over directly, never 0
FnAmp(i) == 1 + (i % 2)

\* the time of sample i of a series that starts at 0 and advances by gaps
RECURSIVE TimeAt(_, _)
TimeAt(gaps, i) == IF i = 1 THEN 0 ELSE TimeAt(gaps, i - 1) + gaps[i - 1]

\* the rows <<time, amplitude>> of the series with these time steps
Series(gaps) == [i \in 1..(Len(gaps) + 1) |-> <<TimeAt(gaps, i), FnAmp(i)>>]

\* the series handed over: empty, or times ascending with irregular spacing
FnSeries ==
    {<<>>} \cup
    { Series(g) : g \in UNION { [1..m -> 1..FnMaxGap] : m \in 0..(FnMaxLen - 1) } }

\* the data argument of calc_fft: None or a two-column array
FnData == {NoData} \cup { Array(rows) : rows \in FnSeries }

FnMaxTime == (FnMaxLen - 1) * FnMaxGap

\* the fft_range arguments: every pair of these ends, fft_min >= fft_max included
FnRangeEnds == {0 - 1, 0, 1, 3, FnMaxTime + 1}

\* the windowtype arguments: the radio button's labels and a name that
\* calc_window's dictionary does not hold
WindowNames == Windows \cup {"welch"}

\* the arguments a call can be made with
Arguments ==
    [fn : {"none"}, data : FnData, fft_range : FnRangeEnds \X FnRangeEnds,
     windowtype : WindowNames, zeropad : BOOLEAN, ret : {<<>>}]

\* the module is imported and no figure is open: the globals hold no file
FnInit ==
    /\ data = NoData
    /\ filename = NoName
    /\ fft_range = <<0, 0>>
    /\ window_button = "hanning"
    /\ zeropad_button = FALSE
    /\ rescale_button = TRUE
    /\ spec_data = <<>>
    /\ ax0 = << <<>>, <<>> >>
    /\ ax1 = << <<>>, <<>> >>
    /\ title = Basename(NoName)
    /\ redraw = "none"
    /\ err = FALSE
    /\ written = <<>>
    /\ lastEvent = "Import"
    /\ running = FALSE
    /\ raises = 0
    /\ call \in Arguments

\* zeropadding(xs, ys) on the two columns of the series
CallZeropadding ==
    /\ call.fn = "none"
    /\ ~call.data.none
    /\ call' = [call EXCEPT !.fn = "zeropadding",
                            !.ret = zeropadding(Col0(call.data.rows), Col1(call.data.rows))]
    /\ UNCHANGED ctl

\* calc_window(windowtype, ys) on the amplitudes of the series
CallCalcWindow ==
    /\ call.fn = "none"
    /\ ~call.data.none
    /\ call' = [call EXCEPT !.fn = "calc_window",
                            !.ret = calc_window(call.windowtype, Col1(call.data.rows))]
    /\ UNCHANGED ctl

\* calc_fft(data, fft_range, windowtype, zeropad)
CallCalcFft ==
    /\ call.fn = "none"
    /\ call' = [call EXCEPT !.fn = "calc_fft",
                            !.ret = calc_fft(call.data, call.fft_range,
                                             call.windowtype, call.zeropad)]
    /\ UNCHANGED ctl

FnNext ==
    \/ CallZeropadding
    \/ CallCalcWindow
    \/ CallCalcFft

FnSpec == FnInit /\ [][FnNext]_vars

\* ------------------------------------------------------------------ claims
\* the events that end in update_plot
RecomputeEvents ==
    {"Load", "SelectRange", "ToggleWindow", "ToggleZeropad", "ToggleRescale", "ResetView"}

\* the last update_plot completed, so the plots show the current globals
Fresh == raises = 0

\* the series the current globals and widgets hand to the transform
CurrentInput == fft_input(data.rows, fft_range, zeropad_button)

\* C1: after any sequence of Load, SelectRange, ToggleWindow, ToggleZeropad,
\* ToggleRescale and ResetView events every recompute completes without raising;
\* with a dataset loaded, zeropad on and a selection holding no sample the
\* recompute leaves an empty spectrum.
C1_RecomputeNeverRaises ==
    lastEvent \in RecomputeEvents =>
        /\ ~err
        /\ (~data.none /\ zeropad_button /\ range_filter(data.rows, fft_range).xs = <<>>)
              => spec_data = <<>>

\* C2: a Commit changes no controller state: dataset, filename, selection
\* range, settings and both columns of the held spectrum stay as they were.
C2_CommitChangesNothing ==
    [][Commit => UNCHANGED <<data, filename, fft_range, window_button, zeropad_button,
                             rescale_button, spec_data>>]_vars

\* C3: at every Commit the frequency column written to the file is the
\* frequencies of the spectrum of the current dataset, selection and settings,
\* each divided by 1,000,000 exactly once.
C3_WrittenFrequenciesScaledOnce ==
    (lastEvent = "Commit" /\ Fresh) =>
        LET c == calc_fft(data, fft_range, window_button, zeropad_button)
        IN  Col0(written[1].rows) = [i \in 1..Len(c.spec_xs) |-> DivMillion(c.spec_xs[i])]

\* C4 as stated: after every Load, the first one and every reload, the
\* selection range is (0,0) and the spectrum is empty.
C4_LoadClearsSelection ==
    lastEvent \in {"Init", "Load"} => (fft_range = <<0, 0>> /\ spec_data = <<>>)

\* C4 amended: after the first load the selection range is (0,0) and the
\* spectrum is empty; a reload keeps the selection range it finds, and when its
\* recompute completes the spectrum it leaves is empty exactly when no dataset
\* is loaded or that range holds fewer than two samples of the new dataset.
C4_ReloadKeepsSelection ==
    [][ /\ lastEvent = "Init" => (fft_range = <<0, 0>> /\ spec_data = <<>>)
        /\ Load =>
            /\ fft_range' = fft_range
            /\ ~err' =>
                (spec_data' = <<>> <=>
                    (data'.none \/ Len(range_filter(data'.rows, fft_range).xs) < 2)) ]_vars

C4_Witness ==
    /\ lastEvent = "Load"
    /\ ~err
    /\ ~data.none
    /\ fft_range[1] < fft_range[2]
    /\ spec_data # <<>>

\* C5 as stated: the redraw of every Load, the first one and every reload,
\* rescales the axes whatever the rescale setting.
C5_LoadAlwaysRescales ==
    (lastEvent \in {"Init", "Load"} /\ ~err) => redraw = "rescaled"

\* C5 amended: the redraw of the first load rescales the axes; a reload does
\* not force a rescale: when its recompute completes its redraw rescales the
\* axes if and only if the rescale setting is enabled, and when the recompute
\* raises there is no redraw.
C5_ReloadRescalesOnlyIfEnabled ==
    /\ lastEvent = "Init" => redraw = "rescaled"
    /\ (lastEvent = "Load" /\ ~err) =>
          /\ redraw # "none"
          /\ redraw = "rescaled" <=> rescale_button
    /\ (lastEvent = "Load" /\ err) => redraw = "none"

C5_Witness ==
    /\ lastEvent = "Load"
    /\ ~err
    /\ ~rescale_button
    /\ redraw = "drawn"

\* C6: the redraw after a SelectRange rescales the axes if and only if the
\* rescale setting is enabled; ResetView sets the selection to (0,0) and its
\* final redraw rescales the axes whatever the rescale setting.
C6_SelectAndResetRedraw ==
    /\ (lastEvent = "SelectRange" /\ redraw # "none") =>
          (redraw = "rescaled" <=> rescale_button)
    /\ lastEvent = "ResetView" => (fft_range = <<0, 0>> /\ redraw = "rescaled")

\* C7: the frequencies of a spectrum the engine returns (the dataset's times
\* ascending) are all strictly positive and strictly increasing in output order.
C7_FrequenciesPositiveAscending ==
    LET spec_xs == ax1[1]
    IN  /\ \A i \in 1..Len(spec_xs) : FreqPositive(spec_xs[i])
        /\ \A i \in 1..(Len(spec_xs) - 1) : FreqLess(spec_xs[i], spec_xs[i + 1])

\* C8: when the transformed series has N >= 1 samples the spectrum has exactly
\* floor((N-1)/2) bins, for odd and even N, and never more bins than samples.
C8_BinCount ==
    (Fresh /\ ~data.none /\ Len(CurrentInput.xs) >= 1) =>
        LET N == Len(CurrentInput.xs)
        IN  /\ Len(ax1[1]) = (N - 1) \div 2
            /\ Len(ax1[1]) <= N

\* C9 as stated: the time-domain sequences returned for a present dataset are
\* the samples inside the selection range (padded when zeropad is on), not the
\* full loaded series.
C9_TimeSeriesIsFiltered ==
    (Fresh /\ ~data.none) => ax0 = <<CurrentInput.xs, CurrentInput.ys>>

\* C9 amended: the time-domain sequences returned for a present dataset are
\* the two columns of the full loaded series, whatever the selection range and
\* the zeropad setting: neither filtered nor padded.
C9_TimeSeriesIsFullSeries ==
    (Fresh /\ ~data.none) => ax0 = <<Col0(data.rows), Col1(data.rows)>>

C9_Witness ==
    /\ Fresh
    /\ lastEvent = "SelectRange"
    /\ ~data.none
    /\ zeropad_button
    /\ Len(range_filter(data.rows, fft_range).xs) \in 1..(Len(data.rows) - 1)
    /\ Len(CurrentInput.xs) # Len(data.rows)
    /\ Len(ax0[1]) = Len(data.rows)

\* the samples of rows with lo < t < hi, in order
RECURSIVE Inside(_, _, _)
Inside(rows, lo, hi) ==
    IF rows = <<>> THEN <<>>
    ELSE IF lo < rows[1][1] /\ rows[1][1] < hi
         THEN <<rows[1]>> \o Inside(Tail(rows), lo, hi)
         ELSE Inside(Tail(rows), lo, hi)

\* C10: the range filter keeps exactly the samples with min < t < max, in
\* their order; for a non-empty series a range with min >= max gives an empty
\* series and therefore an empty spectrum.
C10_RangeFilter ==
    ~data.none =>
        LET sel == range_filter(data.rows, fft_range)
            kept == Inside(data.rows, fft_range[1], fft_range[2])
        IN  /\ sel.xs = Col0(kept)
            /\ sel.ys = Col1(kept)
            /\ fft_range[1] >= fft_range[2] =>
                  /\ sel.xs = <<>>
                  /\ lastEvent \in RecomputeEvents => (~err /\ spec_data = <<>>)

\* C11: for every input of length N >= 1 zeropadding returns xs and ys of
\* equal length L, the smallest power of two with L >= N; when N is a power
\* of two, L = N and both sequences are returned unchanged.
C11_PadsToNextPowerOfTwo ==
    (call.fn = "zeropadding" /\ Len(call.data.rows) >= 1) =>
        LET N == Len(call.data.rows)
            L == Len(call.ret.xs)
        IN  /\ ~call.ret.raised
            /\ Len(call.ret.ys) = L
            /\ L >= N
            /\ \E k \in 0..N : L = 2^k
            /\ \A k \in 0..N : 2^k >= N => L <= 2^k
            /\ (\E k \in 0..N : N = 2^k) =>
                  /\ L = N
                  /\ call.ret.xs = Col0(call.data.rows)
                  /\ call.ret.ys = Col1(call.data.rows)

C11_Witness ==
    /\ call.fn = "zeropadding"
    /\ Len(call.data.rows) = 5
    /\ Len(call.ret.xs) = 8
    /\ Len(call.ret.ys) = 8

\* C12: with the dataset absent (no file selected on open) the spectrum
\* engine returns four empty sequences for every selection range, window and
\* zeropad value, so after a load that selects no file every toggle and
\* selection completes without an error and leaves an empty spectrum.
C12_NoFileGivesEmptySpectrum ==
    data.none =>
        /\ calc_fft(data, fft_range, window_button, zeropad_button)
              = Result(FALSE, <<>>, <<>>, <<>>, <<>>)
        /\ spec_data = <<>>
        /\ ax0 = << <<>>, <<>> >>
        /\ ax1 = << <<>>, <<>> >>
        /\ lastEvent \in RecomputeEvents => (~err /\ redraw # "none")

C12_Witness ==
    /\ data.none
    /\ lastEvent = "SelectRange"
    /\ fft_range[1] < fft_range[2]
    /\ zeropad_button
    /\ window_button = "blackman"
    /\ ~err
    /\ spec_data = <<>>

\* C13 as stated: for every window name (the four tapers, boxcar or an
\* unrecognized name) and every length N, calc_window returns exactly N
\* non-negative weights, and for boxcar or an unrecognized name every weight is 1.
C13_WeightsNonNegative ==
    call.fn = "calc_window" =>
        LET N == Len(call.data.rows)
            window == call.ret
        IN  /\ Len(window) = N
            /\ \A i \in 1..N : WeightSign(window[i]) >= 0
            /\ call.windowtype \notin TaperNames => \A i \in 1..N : WeightIsOne(window[i])

\* C13 amended: calc_window returns exactly N weights, entry i of the taper of
\* length N; for boxcar or an unrecognized name every weight is 1; the hanning,
\* hamming and bartlett weights are non-negative; the blackman weights are
\* non-negative except the first and the last one for N >= 2, which are
\* negative (0.42 - 0.5 + 0.08 in doubles, about -1.4e-17).
C13_WeightsNonNegativeButBlackmanEnds ==
    call.fn = "calc_window" =>
        LET N == Len(call.data.rows)
            window == call.ret
        IN  /\ Len(window) = N
            /\ \A i \in 1..N : window[i][2] = i - 1 /\ window[i][3] = N
            /\ call.windowtype \notin TaperNames => \A i \in 1..N : WeightIsOne(window[i])
            /\ call.windowtype \in TaperNames \ {"blackman"} =>
                  \A i \in 1..N : WeightSign(window[i]) >= 0
            /\ call.windowtype = "blackman" =>
                  \A i \in 1..N : WeightSign(window[i]) < 0 <=> (N >= 2 /\ i \in {1, N})

C13_Witness ==
    /\ call.fn = "calc_window"
    /\ call.windowtype = "blackman"
    /\ Len(call.ret) = 3
    /\ WeightSign(call.ret[1]) < 0
    /\ WeightSign(call.ret[2]) > 0
    /\ WeightSign(call.ret[3]) < 0

\* C14: the loaded dataset is changed only by a Load: SelectRange,
\* ToggleWindow, ToggleZeropad, ToggleRescale, ResetView, Commit and SaveFigure,
\* with the filtering, padding and windowing they trigger, leave every sample
\* of the dataset as it was.
C14_OnlyLoadChangesData ==
    [][ /\ data' # data => Load
        /\ lastEvent' \in {"SelectRange", "ToggleWindow", "ToggleZeropad", "ToggleRescale",
                            "ResetView", "Commit", "SaveFigure"} => data' = data ]_vars

C14_Witness ==
    /\ lastEvent = "ToggleZeropad"
    /\ Fresh
    /\ zeropad_button
    /\ ~data.none
    /\ spec_data # <<>>
    /\ Len(CurrentInput.xs) > Len(range_filter(data.rows, fft_range).xs)
    /\ Len(range_filter(data.rows, fft_range).xs) < Len(data.rows)
    /\ data = Recording(Len(data.rows))

\* C15: in zeropadding with pad_count > 0 and dt = xs[1] - xs[0], the i-th
\* appended x (i = 1..pad_count) is xs[-1] + i*dt, so the last appended x is
\* xs[-1] + pad_count*dt; the original samples are kept as a prefix and every
\* appended y is 0.
C15_AppendedSamples ==
    (call.fn = "zeropadding" /\ Len(call.ret.xs) > Len(call.data.rows)) =>
        LET xs == Col0(call.data.rows)
            ys == Col1(call.data.rows)
            N == Len(xs)
            pad_count == Len(call.ret.xs) - N
            dt == xs[2] - xs[1]
        IN  /\ \A i \in 1..pad_count : call.ret.xs[N + i] = xs[N] + i * dt
            /\ call.ret.xs[N + pad_count] = xs[N] + pad_count * dt
            /\ SubSeq(call.ret.xs, 1, N) = xs
            /\ SubSeq(call.ret.ys, 1, N) = ys
            /\ Len(call.ret.ys) = N + pad_count
            /\ \A i \in 1..pad_count : call.ret.ys[N + i] = 0

C15_Witness ==
    /\ call.fn = "zeropadding"
    /\ Col0(call.data.rows) = <<0, 2, 3>>
    /\ call.ret.xs = <<0, 2, 3, 5>>
    /\ call.ret.ys = <<FnAmp(1), FnAmp(2), FnAmp(3), 0>>

\* C16: in every recompute the order is filter, then optional padding, then
\* windowing, then transform: with zeropad on the window weights are computed
\* for the padded length, so the transform is fed as many weights as samples.
C16_WindowAfterPadding ==
    (call.fn = "calc_fft" /\ ~call.data.none /\ ~call.ret.raised) =>
        LET kept == Inside(call.data.rows, call.fft_range[1], call.fft_range[2])
            N == IF call.zeropad THEN NextPow2(Len(kept)) ELSE Len(kept)
        IN  \A k \in 1..Len(call.ret.spec_ys) :
                LET prod == call.ret.spec_ys[k][2]
                IN  /\ Len(prod) = N
                    /\ \A i \in 1..N :
                          /\ prod[i][1] = IF i <= Len(kept) THEN kept[i][2] ELSE 0
                          /\ prod[i][2][1] =
                                IF call.windowtype \in TaperNames
                                THEN call.windowtype ELSE "ones"
                          /\ prod[i][2][2] = i - 1
                          /\ prod[i][2][3] = N

C16_Witness ==
    /\ call.fn = "calc_fft"
    /\ call.zeropad
    /\ call.windowtype = "hamming"
    /\ Len(call.data.rows) = 5
    /\ Len(Inside(call.data.rows, call.fft_range[1], call.fft_range[2])) = 3
    /\ Len(call.ret.spec_ys) > 0
    /\ Len(call.ret.spec_ys[1][2]) = 4
    /\ call.ret.spec_ys[1][2][4] = <<0, <<"hamming", 3, 4>> >>

\* C17: across any sequence of events the filename handed to save_data on
\* Commit, and shown as the title by a recompute, is the filename the most
\* recent Load returned: no step but a Load changes it, a SaveFigure in
\* between included.
C17_FilenameIsTheLoadedOne ==
    [][ /\ filename' # filename => Load
        /\ SaveFigure => filename' = filename
        /\ Commit => written'[1].name = FFTName(filename')
        /\ (lastEvent' \in RecomputeEvents /\ ~err') => title' = Basename(filename') ]_vars

\* C18: the spectrum held after a recompute is a function of the current
\* dataset, selection range, window and zeropad flag only, whatever the rescale
\* setting and the earlier events: it is the spectrum calc_fft gives for them.
C18_SpectrumIsFunctionOfInputs ==
    lastEvent \in RecomputeEvents =>
        \E c \in {calc_fft(data, fft_range, window_button, zeropad_button)} :
            spec_data = Rows(c.spec_xs, c.spec_ys)

====
